---- MODULE Spec2Model ----
(***************************************************************************)
(* Dual quaternions of spatialmath (src/spatialmath/DualQuaternion.py) as  *)
(* a state machine: a Python session holding a bounded number of           *)
(* DualQuaternion / UnitDualQuaternion objects, on which the constructors  *)
(* and the methods norm, conj, +, -, *, matrix, vec and SE3 are called.    *)
(*                                                                         *)
(* Numbers.  The program computes with IEEE doubles, which are dyadic      *)
(* rationals n / 2^e.  An array of numbers is modelled as [e, c]: the      *)
(* integer entries c over the common denominator 2^e, kept in lowest terms *)
(* (e = 0 or some entry odd), so that equal arrays are equal values.       *)
(* Within the inputs used here +, - and * are exact in double precision.   *)
(*                                                                         *)
(* The functions of spatialmath.base.symbolic and the SE(3) splines        *)
(* (BSplineSE3, InterpSplineSE3, SplineFit) are sessions over the same     *)
(* variables; spline times and poses are exact rationals.                  *)
(***************************************************************************)
EXTENDS Integers, Sequences, FiniteSets, TLC

VARIABLES objs, prov, ret, spl, fit

vars == <<objs, prov, ret, spl, fit>>

\* ------------------------------------------------------------- numbers

Max(a, b) == IF a >= b THEN a ELSE b

AllEven(c) == \A i \in DOMAIN c : c[i] % 2 = 0

RECURSIVE Reduce(_, _)
\* the array c / 2^e in lowest terms
Reduce(e, c) ==
    IF e > 0 /\ AllEven(c)
    THEN Reduce(e - 1, [i \in DOMAIN c |-> c[i] \div 2])
    ELSE [e |-> e, c |-> c]

\* an array of integers
Arr(c) == [e |-> 0, c |-> c]

\* the entries of x over the denominator 2^e, e >= x.e
Lift(x, e) == [i \in DOMAIN x.c |-> x.c[i] * 2^(e - x.e)]

ArrAdd(x, y) ==
    LET e == Max(x.e, y.e)
        lx == Lift(x, e)
        ly == Lift(y, e)
    IN  Reduce(e, [i \in DOMAIN lx |-> lx[i] + ly[i]])

ArrSub(x, y) ==
    LET e == Max(x.e, y.e)
        lx == Lift(x, e)
        ly == Lift(y, e)
    IN  Reduce(e, [i \in DOMAIN lx |-> lx[i] - ly[i]])

\* scalar k (an array of one number) times the array x
ArrScale(k, x) == Reduce(k.e + x.e, [i \in DOMAIN x.c |-> k.c[1] * x.c[i]])

\* x[lo..hi]
ArrSlice(x, lo, hi) == Reduce(x.e, [i \in 1..(hi - lo + 1) |-> x.c[lo + i - 1]])

\* concatenation of two arrays
ArrCat(x, y) ==
    LET e == Max(x.e, y.e)
    IN  Reduce(e, Lift(x, e) \o Lift(y, e))

SqrtBits == 2

Half == [e |-> 1, c |-> <<1>>]

Two == Arr(<<2>>)

RECURSIVE IsqrtIn(_, _, _)
\* the r in lo..hi-1 with r*r <= m < (r+1)*(r+1), given lo*lo <= m < hi*hi
IsqrtIn(m, lo, hi) ==
    IF hi - lo <= 1 THEN lo
    ELSE LET mid == (lo + hi) \div 2
         IN  IF mid <= m \div mid THEN IsqrtIn(m, mid, hi) ELSE IsqrtIn(m, lo, mid)

\* the integer square root of m >= 0
Isqrt(m) == IsqrtIn(m, 0, m + 1)

\* ------------------------------------------------------- Python values
\* Every value but a dual quaternion is [type, A] with A its array of numbers.

None == [type |-> "NoneType", A |-> Arr(<<>>)]

IsNone(x) == x.type = "NoneType"

Float(x) == [type |-> "float", A |-> x]

PyInt(n) == [type |-> "int", A |-> Arr(<<n>>)]

NdArray(x) == [type |-> "ndarray", A |-> x]

Str == [type |-> "str", A |-> Arr(<<>>)]

\* an SE(3) pose: A holds the rotation matrix, row by row, then the translation
Pose(R, t) == [type |-> "SE3", A |-> ArrCat(R, t)]

PoseR(T) == ArrSlice(T.A, 1, 9)

PoseT(T) == ArrSlice(T.A, 10, 12)

Raise(exc) == [kind |-> "raise", val |-> [type |-> exc, A |-> Arr(<<>>)]]

Return(v) == [kind |-> "return", val |-> v]

\* --------------------------------------------------------- quaternions
\* The Quaternion collaborator (scalar first: A = <<s, x, y, z>>).

Quaternion(A) == [type |-> "Quaternion", A |-> A]

UnitQuaternion(A) == [type |-> "UnitQuaternion", A |-> A]

isQuaternion(x) == x.type \in {"Quaternion", "UnitQuaternion"}

\* Hamilton product of two 4-arrays
qqmul(a, b) ==
    LET p == a.c
        q == b.c
    IN  Reduce(a.e + b.e,
               << p[1]*q[1] - p[2]*q[2] - p[3]*q[3] - p[4]*q[4],
                  p[1]*q[2] + p[2]*q[1] + p[3]*q[4] - p[4]*q[3],
                  p[1]*q[3] - p[2]*q[4] + p[3]*q[1] + p[4]*q[2],
                  p[1]*q[4] + p[2]*q[3] - p[3]*q[2] + p[4]*q[1] >>)

\* left * right: a unit quaternion only when both are
Q_mul(left, right) ==
    IF left.type = "UnitQuaternion" /\ right.type = "UnitQuaternion"
    THEN UnitQuaternion(qqmul(left.A, right.A))
    ELSE Quaternion(qqmul(left.A, right.A))

\* scalar * quaternion
Q_rmul(k, q) == Quaternion(ArrScale(k, q.A))

Q_add(left, right) == Quaternion(ArrAdd(left.A, right.A))

Q_sub(left, right) == Quaternion(ArrSub(left.A, right.A))

Q_conj(q) ==
    [type |-> q.type,
     A |-> [e |-> q.A.e, c |-> <<q.A.c[1], -q.A.c[2], -q.A.c[3], -q.A.c[4]>>]]

\* the pure quaternion of a 3-vector
Q_Pure(v) == Quaternion(ArrCat(Arr(<<0>>), v))

\* scalar part
Q_s(q) == ArrSlice(q.A, 1, 1)

\* vector part
Q_v(q) == ArrSlice(q.A, 2, 4)

Q_vec(q) == q.A

\* the 4x4 matrix of left multiplication by q, row by row
Q_matrix(q) ==
    LET s == q.A.c[1]
        x == q.A.c[2]
        y == q.A.c[3]
        z == q.A.c[4]
    IN  [e |-> q.A.e,
         c |-> << s, -x, -y, -z,
                  x,  s, -z,  y,
                  y,  z,  s, -x,
                  z, -y,  x,  s >>]

\* the rotation matrix of a unit quaternion, row by row
q2r(A) ==
    LET s == A.c[1]
        x == A.c[2]
        y == A.c[3]
        z == A.c[4]
        one == 2^(2 * A.e)
    IN  Reduce(2 * A.e,
               << one - 2*(y*y + z*z), 2*(x*y - s*z),       2*(x*z + s*y),
                  2*(x*y + s*z),       one - 2*(x*x + z*z), 2*(y*z - s*x),
                  2*(x*z - s*y),       2*(y*z + s*x),       one - 2*(x*x + y*y) >>)

Sign(a, b) == IF b < 0 THEN -a ELSE a

\* the unit quaternion of a rotation matrix with integer entries (Cayley's
\* method: four square roots, the vector part signed by the skew part)
r2q(R) ==
    LET m == R.c
        d0 == (m[1] + m[5] + m[9] + 1) * (m[1] + m[5] + m[9] + 1)
        d1 == (m[1] - m[5] - m[9] + 1) * (m[1] - m[5] - m[9] + 1)
        d2 == (m[5] - m[1] - m[9] + 1) * (m[5] - m[1] - m[9] + 1)
        d3 == (m[9] - m[1] - m[5] + 1) * (m[9] - m[1] - m[5] + 1)
        t12p == (m[2] + m[4]) * (m[2] + m[4])
        t13p == (m[3] + m[7]) * (m[3] + m[7])
        t23p == (m[6] + m[8]) * (m[6] + m[8])
        t12m == (m[4] - m[2]) * (m[4] - m[2])
        t13m == (m[3] - m[7]) * (m[3] - m[7])
        t23m == (m[8] - m[6]) * (m[8] - m[6])
    IN  Reduce(2,
               << Isqrt(d0 + t23m + t13m + t12m),
                  Sign(Isqrt(t23m + d1 + t12p + t13p), m[8] - m[6]),
                  Sign(Isqrt(t13m + t12p + d2 + t23p), m[3] - m[7]),
                  Sign(Isqrt(t12m + t13p + t23p + d3), m[4] - m[2]) >>)

\* ------------------------------------------------- spatialmath.base.symbolic

\* a sympy expression (its form is left out)
Expr == [type |-> "Expr", A |-> Arr(<<>>)]

\* a list or tuple given by its elements, which may be of any type
Container(type, items) == [type |-> type, items |-> items]

\* the elements of a list or tuple
Items(var) ==
    IF "items" \in DOMAIN var THEN var.items
    ELSE [i \in DOMAIN var.A.c |-> Float(Arr(<<var.A.c[i]>>))]

\* issymbol looking at var itself only
issymbol_scalar(var) == var.type = "Expr"

issymbol(var) ==
    IF var.type \in {"list", "tuple"}
    THEN \E i \in DOMAIN Items(var) : Items(var)[i].type = "Expr"
    ELSE var.type = "Expr"

isnumber(v) == v.type \in {"float", "int"}

\* sympy.sin, sympy.cos, sympy.tan, sympy.sqrt: an expression of an
\* expression; a list or tuple is no expression and sympy raises (the class
\* of the exception depends on the function)
sympy_call(v) ==
    IF v.type = "Expr" THEN Return(Expr) ELSE Raise("SympyError")

\* sin, cos and tan of the integers -1..4 to ten binary places, cut
SinTable == <<-861, 0, 861, 931, 144, -774>>

CosTable == <<553, 1024, 553, -426, -1013, -669>>

TanTable == <<-1594, 0, 1594, -2237, -145, 1185>>

\* math.sin, math.cos, math.tan: a float of a number, TypeError otherwise
math_call(table, theta) ==
    IF ~isnumber(theta) THEN Raise("TypeError")
    ELSE Return(Float(Reduce(10, <<table[theta.A.c[1] + 2]>>)))

\* math.sqrt of a double: a domain error below zero; the root is exact when
\* it is a dyadic rational and is cut to SqrtBits further binary places when
\* it is not (a double's rounding, at a narrower mantissa)
math_sqrt(v) ==
    LET n == IF v.A.e % 2 = 1 THEN 2 * v.A.c[1] ELSE v.A.c[1]
        h == (v.A.e + 1) \div 2
        r == Isqrt(n)
    IN  IF ~isnumber(v) THEN Raise("TypeError")
        ELSE IF n < 0 THEN Raise("ValueError")
        ELSE IF r * r = n THEN Return(Float(Reduce(h, <<r>>)))
        ELSE Return(Float(Reduce(h + SqrtBits, <<Isqrt(n * 4^SqrtBits)>>)))

sin(theta) ==
    IF issymbol(theta) THEN sympy_call(theta)
    ELSE math_call(SinTable, theta)

cos(theta) ==
    IF issymbol(theta) THEN sympy_call(theta)
    ELSE math_call(CosTable, theta)

tan(theta) ==
    IF issymbol(theta) THEN sympy_call(theta)
    ELSE math_call(TanTable, theta)

sqrt(v) ==
    IF issymbol(v) THEN sympy_call(v)
    ELSE math_sqrt(v)

\* ------------------------------------------------------ base predicates

\* base.isvector(v, dim): a list or array of dim numbers
isvector(v, dim) == v.type \in {"list", "ndarray"} /\ Len(v.A.c) = dim

\* ------------------------------------------------------- DualQuaternion

isDualQuaternion(x) == x.type \in {"DualQuaternion", "UnitDualQuaternion"}

isUnitDualQuaternion(x) == x.type = "UnitDualQuaternion"

\* the object with the two attributes set
Object(cls, real, dual) == [type |-> cls, real |-> real, dual |-> dual]

\* DualQuaternion.__init__ taking any dual part that is not None
DualQuaternion_unchecked(cls, real, dual) ==
    IF IsNone(real) /\ IsNone(dual)
    THEN Return(Object(cls, None, None))
    ELSE IF IsNone(dual) /\ isvector(real, 8)
    THEN Return(Object(cls, Quaternion(ArrSlice(real.A, 1, 4)),
                            Quaternion(ArrSlice(real.A, 5, 8))))
    ELSE IF ~IsNone(real) /\ ~IsNone(dual)
    THEN IF ~isQuaternion(real) THEN Raise("ValueError")
         ELSE Return(Object(cls, real, dual))
    ELSE Raise("ValueError")

\* DualQuaternion.__init__ on an object of class cls
DualQuaternion(cls, real, dual) ==
    IF IsNone(real) /\ IsNone(dual)
    THEN Return(Object(cls, None, None))
    ELSE IF IsNone(dual) /\ isvector(real, 8)
    THEN Return(Object(cls, Quaternion(ArrSlice(real.A, 1, 4)),
                            Quaternion(ArrSlice(real.A, 5, 8))))
    ELSE IF ~IsNone(real) /\ ~IsNone(dual)
    THEN IF ~isQuaternion(real) THEN Raise("ValueError")
         ELSE IF ~isQuaternion(dual) THEN Raise("ValueError")
         ELSE Return(Object(cls, real, dual))
    ELSE Raise("ValueError")

\* UnitDualQuaternion.__init__ with dual = 0.5 * S * D
UnitDualQuaternion_swapped(real, dual) ==
    IF IsNone(dual) /\ real.type = "SE3"
    THEN LET S == UnitQuaternion(r2q(PoseR(real)))
             D == Q_Pure(PoseT(real))
         IN  DualQuaternion("UnitDualQuaternion", S, Q_mul(S, Q_rmul(Half, D)))
    ELSE DualQuaternion("UnitDualQuaternion", real, dual)

\* UnitDualQuaternion.__init__
UnitDualQuaternion(real, dual) ==
    IF IsNone(dual) /\ real.type = "SE3"
    THEN LET S == UnitQuaternion(r2q(PoseR(real)))
             D == Q_Pure(PoseT(real))
         IN  DualQuaternion("UnitDualQuaternion", S, Q_mul(Q_rmul(Half, D), S))
    ELSE DualQuaternion("UnitDualQuaternion", real, dual)

\* DualQuaternion.Pure
Pure(x) ==
    DualQuaternion("DualQuaternion", UnitQuaternion(Arr(<<1, 0, 0, 0>>)), Q_Pure(x.A))

norm(self) ==
    IF IsNone(self.real) \/ IsNone(self.dual) THEN Raise("AttributeError")
    ELSE LET a == Q_mul(self.real, Q_conj(self.real))
             b == Q_add(Q_mul(self.real, Q_conj(self.dual)),
                        Q_mul(self.dual, Q_conj(self.real)))
             n0 == sqrt(Float(Q_s(a)))
             n1 == sqrt(Float(Q_s(b)))
         IN  IF n0.kind = "raise" THEN n0
             ELSE IF n1.kind = "raise" THEN n1
             ELSE Return([type |-> "tuple", items |-> <<n0.val, n1.val>>])

\* conj leaving the dual part as it is
conj_real(self) ==
    IF IsNone(self.real) \/ IsNone(self.dual) THEN Raise("AttributeError")
    ELSE DualQuaternion("DualQuaternion", Q_conj(self.real), self.dual)

conj(self) ==
    IF IsNone(self.real) \/ IsNone(self.dual) THEN Raise("AttributeError")
    ELSE DualQuaternion("DualQuaternion", Q_conj(self.real), Q_conj(self.dual))

add(self, right) ==
    IF IsNone(self.real) \/ IsNone(self.dual) THEN Raise("AssertionError")
    ELSE IF ~isDualQuaternion(right) THEN Raise("AttributeError")
    ELSE IF IsNone(right.real) \/ IsNone(right.dual) THEN Raise("AssertionError")
    ELSE DualQuaternion("DualQuaternion", Q_add(self.real, right.real),
                                          Q_add(self.dual, right.dual))

sub(self, right) ==
    IF IsNone(self.real) \/ IsNone(self.dual) THEN Raise("AssertionError")
    ELSE IF ~isDualQuaternion(right) THEN Raise("AttributeError")
    ELSE IF IsNone(right.real) \/ IsNone(right.dual) THEN Raise("AssertionError")
    ELSE DualQuaternion("DualQuaternion", Q_sub(self.real, right.real),
                                          Q_sub(self.dual, right.dual))

\* mul_dual with the second term of the dual part taken in the other order
mul_dual_swapped(self, right) ==
    LET real == Q_mul(self.real, right.real)
        dual == Q_add(Q_mul(self.real, right.dual), Q_mul(right.real, self.dual))
    IN  IF isUnitDualQuaternion(self) /\ isUnitDualQuaternion(self)
        THEN UnitDualQuaternion(real, dual)
        ELSE DualQuaternion("DualQuaternion", real, dual)

\* mul_dual keeping the product of the two dual parts
mul_dual_eps2(self, right) ==
    LET real == Q_mul(self.real, right.real)
        dual == Q_add(Q_add(Q_mul(self.real, right.dual), Q_mul(self.dual, right.real)),
                      Q_mul(self.dual, right.dual))
    IN  IF isUnitDualQuaternion(self) /\ isUnitDualQuaternion(self)
        THEN UnitDualQuaternion(real, dual)
        ELSE DualQuaternion("DualQuaternion", real, dual)

\* mul_dual multiplying right by self
mul_dual_reversed(self, right) ==
    LET real == Q_mul(right.real, self.real)
        dual == Q_add(Q_mul(right.real, self.dual), Q_mul(right.dual, self.real))
    IN  IF isUnitDualQuaternion(self) /\ isUnitDualQuaternion(self)
        THEN UnitDualQuaternion(real, dual)
        ELSE DualQuaternion("DualQuaternion", real, dual)

\* __mul__, the branch of a dual quaternion on the right (lines 207-216)
mul_dual(self, right) ==
    LET real == Q_mul(self.real, right.real)
        dual == Q_add(Q_mul(self.real, right.dual), Q_mul(self.dual, right.real))
    IN  IF isUnitDualQuaternion(self) /\ isUnitDualQuaternion(self)
        THEN UnitDualQuaternion(real, dual)
        ELSE DualQuaternion("DualQuaternion", real, dual)

\* __mul__, the branch of a 3-vector on the right (lines 218-221)
mul_point(self, right) ==
    LET v == NdArray(right.A)
        vp == mul_dual(mul_dual(self, Pure(v).val).val, conj(self).val).val
    IN  Return(NdArray(Q_v(vp.dual)))

\* __mul__ without the assertion on the right operand
mul_unasserted(self, right) ==
    IF IsNone(self.real) \/ IsNone(self.dual) THEN Raise("AssertionError")
    ELSE IF isDualQuaternion(right)
    THEN IF IsNone(right.real) \/ IsNone(right.dual) THEN Raise("TypeError")
         ELSE mul_dual(self, right)
    ELSE IF isUnitDualQuaternion(self) /\ isvector(right, 3) THEN mul_point(self, right)
    ELSE Return(None)

\* __mul__: the two assertions read right.real and right.dual, attributes
\* only a dual quaternion has
mul(self, right) ==
    IF IsNone(self.real) \/ IsNone(self.dual) THEN Raise("AssertionError")
    ELSE IF ~isDualQuaternion(right) THEN Raise("AttributeError")
    ELSE IF IsNone(right.real) \/ IsNone(right.dual) THEN Raise("AssertionError")
    ELSE IF isDualQuaternion(right) THEN mul_dual(self, right)
    ELSE IF isUnitDualQuaternion(self) /\ isvector(right, 3) THEN mul_point(self, right)
    ELSE Return(None)

\* np.block([[a, 0], [b, a]]) of two 4x4 matrices, row by row
Block(a, b) ==
    LET e == Max(a.e, b.e)
        la == Lift(a, e)
        lb == Lift(b, e)
    IN  Reduce(e, [k \in 1..64 |->
                     LET i == ((k - 1) \div 8) + 1
                         j == ((k - 1) % 8) + 1
                     IN  IF i <= 4 /\ j <= 4 THEN la[(i - 1) * 4 + j]
                         ELSE IF i <= 4 THEN 0
                         ELSE IF j <= 4 THEN lb[(i - 5) * 4 + j]
                         ELSE la[(i - 5) * 4 + (j - 4)]])

\* matrix with the blocks of the second block row exchanged
matrix_swapped(self) ==
    IF IsNone(self.real) \/ IsNone(self.dual) THEN Raise("AssertionError")
    ELSE Return(NdArray(Block(Q_matrix(self.dual), Q_matrix(self.real))))

matrix(self) ==
    IF IsNone(self.real) \/ IsNone(self.dual) THEN Raise("AssertionError")
    ELSE Return(NdArray(Block(Q_matrix(self.real), Q_matrix(self.dual))))

vec(self) ==
    IF IsNone(self.real) \/ IsNone(self.dual) THEN Raise("AssertionError")
    ELSE Return(NdArray(ArrCat(Q_vec(self.real), Q_vec(self.dual))))

\* SE3 with the translation taken from 2 conj(real) dual
SE3_swapped(self) ==
    IF IsNone(self.real) \/ IsNone(self.dual) THEN Raise("AttributeError")
    ELSE LET R == q2r(self.real.A)
             t == Q_mul(Q_conj(self.real), Q_rmul(Two, self.dual))
         IN  Return(Pose(R, Q_v(t)))

\* UnitDualQuaternion.SE3
SE3(self) ==
    IF IsNone(self.real) \/ IsNone(self.dual) THEN Raise("AttributeError")
    ELSE LET R == q2r(self.real.A)
             t == Q_mul(Q_rmul(Two, self.dual), Q_conj(self.real))
         IN  Return(Pose(R, Q_v(t)))

\* M @ v for an n x n matrix, row by row, and an n-vector
MatVec(M, v) ==
    LET n == Len(v.c)
        RECURSIVE Dot(_, _)
        Dot(i, j) == IF j = 0 THEN 0 ELSE M.c[(i - 1) * n + j] * v.c[j] + Dot(i, j - 1)
    IN  Reduce(M.e + v.e, [i \in 1..n |-> Dot(i, n)])


\* ------------------------------------------------------------- inputs

MaxObjs == 3

List(c) == [type |-> "list", A |-> Arr(c)]

qA == Quaternion(Arr(<<1, 2, 0, -1>>))

qB == Quaternion(Arr(<<0, 1, -1, 2>>))

qC == Quaternion(Arr(<<1, 0, -1, 1>>))

qD == Quaternion(Arr(<<-1, 2, 0, -1>>))

\* the identity pose
T0 == Pose(Arr(<<1, 0, 0,  0, 1, 0,  0, 0, 1>>), Arr(<<0, 0, 0>>))

\* a third of a turn about (1, 1, 1), then a translation
T1 == Pose(Arr(<<0, 0, 1,  1, 0, 0,  0, 1, 0>>), Arr(<<1, 2, 3>>))

\* half a turn about x, then a translation
T2 == Pose(Arr(<<1, 0, 0,  0, -1, 0,  0, 0, -1>>), Arr(<<0, -2, 1>>))

Poses == {T0, T1, T2}

\* the argument pairs of the DualQuaternion constructor calls
DualArgs ==
    { <<None, None>>, <<List(<<1, 2, 0, -1, 0, 1, -1, 2>>), None>>, <<qA, qB>>,
      <<qC, UnitQuaternion(Arr(<<0, 1, 0, 0>>))>>,
      <<List(<<1, 2, 3, 4, 5, 6, 7>>), None>>, <<NdArray(Arr(<<1, 2, 3>>)), None>>,
      <<NdArray(Arr(<<1, 2, 3, 4, 5, 6, 7, 8, 9>>)), None>>,
      <<qA, None>>, <<None, qB>>, <<Str, qB>>, <<qA, Str>>, <<qA, T1>>,
      <<qA, List(<<1, 2, 3, 4>>)>>, <<List(<<1, 2, 3, 4>>), qB>>,
      <<List(<<1, 2, 0, -1, 0, 1, -1, 2>>), qB>>, <<T1, None>>, <<Str, None>> }

\* the argument pairs of the UnitDualQuaternion constructor calls
UnitArgs ==
    { <<T0, None>>, <<T1, None>>, <<T2, None>>, <<qC, qD>>, <<None, None>>,
      <<T2, qA>>, <<None, qA>>, <<Str, None>> }

\* the right operands of * that are no dual quaternion
Points == { List(<<1, -2, 3>>), NdArray(Arr(<<0, 0, 0>>)) }

\* the constructor calls a session of method calls starts from
Inputs ==
    << [op |-> "DualQuaternion", args |-> <<None, None>>],
       [op |-> "DualQuaternion", args |-> <<qA, qB>>],
       [op |-> "DualQuaternion", args |-> <<qC, qD>>],
       [op |-> "UnitDualQuaternion", args |-> <<T0, None>>],
       [op |-> "UnitDualQuaternion", args |-> <<T1, None>>],
       [op |-> "UnitDualQuaternion", args |-> <<T2, None>>] >>

\* ------------------------------------------------------- state machine
\* objs: the dual quaternions of the session, in order of construction
\* prov: for each, the call that returned it (operands as indices into objs)
\* ret:  the last call, its operands and what it returned or raised, until
\*       the caller takes it

NoCall == [op |-> "none", self |-> 0, right |-> 0, args |-> <<>>, out |-> Return(None)]

\* spl: the spline of the session, and its last evaluation until the caller
\*      takes it
NoSpline ==
    [kind |-> "none", times |-> <<>>, normalize_time |-> FALSE, timepoints |-> <<>>,
     poses |-> <<>>, called |-> FALSE, t |-> <<>>, out |-> <<>>]

\* fit: the SplineFit of the session: the number N of samples, the bound on
\*      the angular error, the indices kept, the candidate under test, the
\*      number of points a candidate drops, the iterations left, and pc, the
\*      position in stochastic_downsample_interpolation
NoFit ==
    [pc |-> "none", N |-> 0, bound |-> <<>>, kept |-> <<>>, cand |-> <<>>,
     step |-> 0, budget |-> 0]

Built(op, a, b, args) == [op |-> op, a |-> a, b |-> b, args |-> args]

\* the constructor call c
New(c) ==
    IF c.op = "UnitDualQuaternion" THEN UnitDualQuaternion(c.args[1], c.args[2])
    ELSE DualQuaternion("DualQuaternion", c.args[1], c.args[2])

\* a session starts with one or two dual quaternions constructed
Init ==
    \E i \in DOMAIN Inputs : \E j \in DOMAIN Inputs :
        /\ i <= j
        /\ LET calls == IF i = j THEN <<Inputs[i]>> ELSE <<Inputs[i], Inputs[j]>>
           IN  /\ objs = [k \in DOMAIN calls |-> New(calls[k]).val]
               /\ prov = [k \in DOMAIN calls |-> Built(calls[k].op, 0, 0, calls[k].args)]
        /\ ret = NoCall
        /\ spl = NoSpline
        /\ fit = NoFit

\* a method storing what it computes in self
Store_inplace(heap, self, out) ==
    IF out.kind = "return" /\ isDualQuaternion(out.val)
    THEN IF self > 0 THEN [heap EXCEPT ![self] = out.val] ELSE Append(heap, out.val)
    ELSE heap

\* a call returning a dual quaternion returns a new object; the operands,
\* self among them, stay as they are
Store(heap, self, out) ==
    IF out.kind = "return" /\ isDualQuaternion(out.val) THEN Append(heap, out.val)
    ELSE heap

\* the effect of one call on the session, made once the last result is taken
Call(op, a, b, args, out) ==
    /\ ret = NoCall
    /\ Len(Store(objs, a, out)) <= MaxObjs
    /\ objs' = Store(objs, a, out)
    /\ prov' = IF out.kind = "return" /\ isDualQuaternion(out.val)
               THEN Append(prov, Built(op, a, b, args))
               ELSE prov
    /\ ret' = [op |-> op, self |-> a, right |-> b, args |-> args, out |-> out]
    /\ UNCHANGED <<spl, fit>>

NewDualQuaternion ==
    \E rd \in DualArgs :
        Call("DualQuaternion", 0, 0, rd, New([op |-> "DualQuaternion", args |-> rd]))

NewUnitDualQuaternion ==
    \E rd \in UnitArgs :
        Call("UnitDualQuaternion", 0, 0, rd, New([op |-> "UnitDualQuaternion", args |-> rd]))

CallNorm == \E i \in DOMAIN objs : Call("norm", i, 0, <<>>, norm(objs[i]))

CallConj == \E i \in DOMAIN objs : Call("conj", i, 0, <<>>, conj(objs[i]))

CallAdd ==
    \E i \in DOMAIN objs : \E j \in DOMAIN objs :
        Call("__add__", i, j, <<>>, add(objs[i], objs[j]))

CallSub ==
    \E i \in DOMAIN objs : \E j \in DOMAIN objs :
        Call("__sub__", i, j, <<>>, sub(objs[i], objs[j]))

CallMul ==
    \E i \in DOMAIN objs : \E j \in DOMAIN objs :
        Call("__mul__", i, j, <<>>, mul(objs[i], objs[j]))

CallMulPoint ==
    \E i \in DOMAIN objs : \E v \in Points :
        Call("__mul__", i, 0, <<v>>, mul(objs[i], v))

CallMatrix == \E i \in DOMAIN objs : Call("matrix", i, 0, <<>>, matrix(objs[i]))

CallVec == \E i \in DOMAIN objs : Call("vec", i, 0, <<>>, vec(objs[i]))

CallSE3 ==
    \E i \in DOMAIN objs :
        /\ isUnitDualQuaternion(objs[i])
        /\ Call("SE3", i, 0, <<>>, SE3(objs[i]))

\* the caller takes the value returned, or handles the exception, and goes on
Resume ==
    /\ ret # NoCall
    /\ ret' = NoCall
    /\ UNCHANGED <<objs, prov, spl, fit>>

Next ==
    \/ Resume
    \/ CallNorm
    \/ CallConj
    \/ CallAdd
    \/ CallSub
    \/ CallMul
    \/ CallMulPoint
    \/ CallMatrix
    \/ CallVec
    \/ CallSE3

\* sessions of method calls on dual quaternions already constructed
Spec == Init /\ [][Next]_vars

InitNew ==
    /\ objs = <<>>
    /\ prov = <<>>
    /\ ret = NoCall
    /\ spl = NoSpline
    /\ fit = NoFit

NextNew ==
    \/ Resume
    \/ NewDualQuaternion
    \/ NewUnitDualQuaternion

\* sessions of constructor calls
SpecNew == InitNew /\ [][NextNew]_vars

\* the elements a list or tuple argument is made of
Elems == {Expr, Float(Arr(<<1>>)), Str}

MaxItems == 2

RECURSIVE SeqsUpTo(_, _)
\* the sequences of at most n elements of S
SeqsUpTo(S, n) ==
    IF n = 0 THEN {<<>>}
    ELSE SeqsUpTo(S, n - 1)
             \cup {Append(q, x) : q \in {r \in SeqsUpTo(S, n - 1) : Len(r) = n - 1}, x \in S}

\* the arguments of issymbol, sin, cos, tan and sqrt
SymArgs ==
    {Expr, PyInt(0), PyInt(3), Float(Arr(<<1>>)), Float(Arr(<<-1>>)), Float(Arr(<<4>>)),
     Str, List(<<1, 2>>)}
        \cup {Container(t, q) : t \in {"list", "tuple"}, q \in SeqsUpTo(Elems, MaxItems)}

Bool(b) == [type |-> "bool", A |-> Arr(<<IF b THEN 1 ELSE 0>>)]

CallIssymbol == \E x \in SymArgs : Call("issymbol", 0, 0, <<x>>, Return(Bool(issymbol(x))))

CallSin == \E x \in SymArgs : Call("sin", 0, 0, <<x>>, sin(x))

CallCos == \E x \in SymArgs : Call("cos", 0, 0, <<x>>, cos(x))

CallTan == \E x \in SymArgs : Call("tan", 0, 0, <<x>>, tan(x))

CallSqrt == \E x \in SymArgs : Call("sqrt", 0, 0, <<x>>, sqrt(x))

NextSym ==
    \/ Resume
    \/ CallIssymbol
    \/ CallSin
    \/ CallCos
    \/ CallTan
    \/ CallSqrt

\* sessions of calls of the functions of base.symbolic
SpecSym == InitNew /\ [][NextSym]_vars

\* ------------------------------------------------------------- splines
\* Times, parameters and pose coordinates are rationals [n, d] in lowest
\* terms, d > 0.  A pose is <<a, x, y, z>>: a turn by a about a fixed axis
\* and the translation (x, y, z); along a fixed axis the geodesic between two
\* rotations and the blending of rotations are affine in the angle.

RECURSIVE Gcd(_, _)
Gcd(a, b) == IF b = 0 THEN a ELSE Gcd(b, a % b)

\* n / d, d # 0
Rat(n, d) ==
    LET m == IF d < 0 THEN -n ELSE n
        e == IF d < 0 THEN -d ELSE d
        g == Gcd(IF m < 0 THEN -m ELSE m, e)
    IN  [n |-> m \div g, d |-> e \div g]

RatAdd(a, b) == Rat(a.n * b.d + b.n * a.d, a.d * b.d)

RatSub(a, b) == Rat(a.n * b.d - b.n * a.d, a.d * b.d)

RatMul(a, b) == Rat(a.n * b.n, a.d * b.d)

RatDiv(a, b) == Rat(a.n * b.d, a.d * b.n)

RatLt(a, b) == a.n * b.d < b.n * a.d

RatLe(a, b) == a.n * b.d <= b.n * a.d

Zero == Rat(0, 1)

One == Rat(1, 1)

\* the sequence of integers c as rationals
Rats(c) == [i \in DOMAIN c |-> Rat(c[i], 1)]

\* p + u (q - p), coordinate by coordinate
Blend(p, q, u) == [j \in DOMAIN p |-> RatAdd(p[j], RatMul(u, RatSub(q[j], p[j])))]

\* timepoints divided by their span, not shifted
Normalize_unshifted(times) ==
    LET n == Len(times)
    IN  [i \in 1..n |-> RatDiv(times[i], RatSub(times[n], times[1]))]

\* timepoints shifted to start at 0 and divided by their span
Normalize(times) ==
    LET n == Len(times)
    IN  [i \in 1..n |-> RatDiv(RatSub(times[i], times[1]), RatSub(times[n], times[1]))]

\* InterpSplineSE3(timepoints, waypoints, normalize_time)
InterpSplineSE3(times, waypoints, normalize_time) ==
    [kind |-> "InterpSplineSE3", times |-> times, normalize_time |-> normalize_time,
     timepoints |-> IF normalize_time THEN Normalize(times) ELSE times,
     poses |-> waypoints, called |-> FALSE, t |-> <<>>, out |-> <<>>]

\* the segment of t: the last k < n with timepoints[k] <= t, the first
\* segment for a t before the first timepoint
Segment(tp, t) ==
    LET below == {k \in 1..(Len(tp) - 1) : RatLe(tp[k], t)}
    IN  IF below = {} THEN 1 ELSE CHOOSE k \in below : \A m \in below : m <= k

\* InterpSplineSE3.__call__(t): the pose at time t
Interp_call(self, t) ==
    LET tp == self.timepoints
        k == Segment(tp, t)
        u == RatDiv(RatSub(t, tp[k]), RatSub(tp[k + 1], tp[k]))
    IN  Blend(self.poses[k], self.poses[k + 1], u)

\* the degree of the spline of n control poses: cubic from 4 poses on
Degree(n) == IF n - 1 < 3 THEN n - 1 ELSE 3

\* knots from 0 to 1 in equal steps, none repeated
Knots_uniform(n) ==
    LET p == Degree(n)
    IN  [i \in 1..(n + p + 1) |-> Rat(i - 1, n + p)]

\* the clamped knots of n control poses: 0 and 1, each degree + 1 times,
\* around n - degree - 1 equally spaced inner knots
Knots(n) ==
    LET p == Degree(n)
    IN  [i \in 1..(n + p + 1) |->
            IF i <= p + 1 THEN Zero
            ELSE IF i > n THEN One
            ELSE Rat(i - p - 1, n - p)]

\* BSplineSE3(control_poses)
BSplineSE3(control_poses) ==
    [kind |-> "BSplineSE3", times |-> <<>>, normalize_time |-> FALSE,
     timepoints |-> Knots(Len(control_poses)),
     poses |-> control_poses, called |-> FALSE, t |-> <<>>, out |-> <<>>]

RECURSIVE Basis(_, _, _, _)
\* the B-spline basis function N(i, p) at u over the knots (Cox - de Boor;
\* a term over an empty span is 0, the last span is closed at 1)
Basis(knots, i, p, u) ==
    IF p = 0
    THEN IF \/ RatLe(knots[i], u) /\ RatLt(u, knots[i + 1])
            \/ /\ u = knots[Len(knots)]
               /\ knots[i + 1] = u
               /\ RatLt(knots[i], u)
         THEN One ELSE Zero
    ELSE LET left == IF knots[i + p] = knots[i] THEN Zero
                     ELSE RatMul(RatDiv(RatSub(u, knots[i]), RatSub(knots[i + p], knots[i])),
                                 Basis(knots, i, p - 1, u))
             right == IF knots[i + p + 1] = knots[i + 1] THEN Zero
                      ELSE RatMul(RatDiv(RatSub(knots[i + p + 1], u),
                                         RatSub(knots[i + p + 1], knots[i + 1])),
                                  Basis(knots, i + 1, p - 1, u))
         IN  RatAdd(left, right)

\* BSplineSE3.__call__(t): the control poses weighted by the basis at t
BSpline_call(self, t) ==
    LET n == Len(self.poses)
        p == Degree(n)
        RECURSIVE Sum(_, _)
        Sum(j, i) ==
            IF i = 0 THEN Zero
            ELSE RatAdd(RatMul(Basis(self.timepoints, i, p, t), self.poses[i][j]),
                        Sum(j, i - 1))
    IN  [j \in DOMAIN self.poses[1] |-> Sum(j, n)]

Spline_call(self, t) ==
    IF self.kind = "BSplineSE3" THEN BSpline_call(self, t) ELSE Interp_call(self, t)

MaxPoses == 5

\* 2 cos(e pi / 2) and 2 sin(e pi / 2)
Cos2(e) == <<2, 0, -2, 0>>[(e % 4) + 1]

Sin2(e) == <<0, 2, 0, -2>>[(e % 4) + 1]

\* the poses of the helix SE3.Trans(e, 2 cos(e pi/2), 2 sin(e pi/2)) * SE3.Ry(e pi/8),
\* e = 0..n-1, the angle counted in eighths of pi
Helix(n) == [i \in 1..n |-> Rats(<<i - 1, i - 1, Cos2(i - 1), Sin2(i - 1)>>)]

\* np.linspace(0, stop, n)
Linspace(stop, n) == [i \in 1..n |-> Rat(stop * (i - 1), n - 1)]

\* the timepoints of the interpolating splines
TimeSets ==
    {Linspace(10, n) : n \in 2..MaxPoses}
        \cup {Rats(<<2, 3, 5>>), Rats(<<-1, 0, 2, 7>>), <<Rat(1, 2), Rat(3, 4), Rat(3, 1)>>}

\* the times a spline is evaluated at: its timepoints and the middles between
\* them, and for a B-spline the eighths of [0, 1]
Queries(self) ==
    IF self.kind = "BSplineSE3" THEN {Rat(k, 8) : k \in 0..8}
    ELSE {self.timepoints[i] : i \in DOMAIN self.timepoints}
             \cup {RatMul(Rat(1, 2), RatAdd(self.timepoints[i], self.timepoints[i + 1])) :
                       i \in 1..(Len(self.timepoints) - 1)}

NewBSplineSE3 ==
    /\ spl.kind = "none"
    /\ \E n \in 2..MaxPoses : spl' = BSplineSE3(Helix(n))
    /\ UNCHANGED <<objs, prov, ret, fit>>

NewInterpSplineSE3 ==
    /\ spl.kind = "none"
    /\ \E times \in TimeSets : \E normalize_time \in BOOLEAN :
           spl' = InterpSplineSE3(times, Helix(Len(times)), normalize_time)
    /\ UNCHANGED <<objs, prov, ret, fit>>

\* spline(t)
CallSpline ==
    /\ spl.kind # "none"
    /\ ~spl.called
    /\ \E t \in Queries(spl) :
           spl' = [spl EXCEPT !.called = TRUE, !.t = t, !.out = Spline_call(spl, t)]
    /\ UNCHANGED <<objs, prov, ret, fit>>

\* the caller takes the pose and goes on
ResumeSpline ==
    /\ spl.called
    /\ spl' = [spl EXCEPT !.called = FALSE, !.t = <<>>, !.out = <<>>]
    /\ UNCHANGED <<objs, prov, ret, fit>>

NextSpline ==
    \/ NewBSplineSE3
    \/ NewInterpSplineSE3
    \/ CallSpline
    \/ ResumeSpline

\* sessions of one spline, built and then evaluated
SpecSpline == InitNew /\ [][NextSpline]_vars

\* --------------------------------------------------------- SplineFit
\* SplineFit(time_data, pose_data).stochastic_downsample_interpolation():
\* a loop that drops interior samples at random, fits an interpolating
\* spline on the samples left, and keeps the smaller set when the worst
\* angular error over all the samples is within the bound.  Indices count
\* from 0 as in Python; the angle of a pose is counted in 64ths of pi.

Min(a, b) == IF a <= b THEN a ELSE b

Range(q) == {q[i] : i \in DOMAIN q}

\* the integers of S in increasing order
Sorted(S) ==
    [k \in 1..Cardinality(S) |-> CHOOSE x \in S : Cardinality({y \in S : y < x}) = k - 1]

RatAbs(a) == IF a.n < 0 THEN Rat(-a.n, a.d) ELSE a

\* the largest of a nonempty set of rationals
RatMax(S) == CHOOSE m \in S : \A x \in S : RatLe(x, m)

\* the timestamps of N samples: np.linspace(0, 1, N)
FitTimes(N) == Linspace(1, N)

\* N samples of a helix whose turning speeds up: the angle of sample i is i^2
FitPoses(N) == [i \in 1..N |-> Rats(<<(i - 1) * (i - 1), i - 1, Cos2(i - 1), Sin2(i - 1)>>)]

\* data[idx], idx a sequence of indices from 0
Sub(data, idx) == [k \in DOMAIN idx |-> data[idx[k] + 1]]

\* the interpolating spline through the samples idx of N
FitSpline(N, idx) == InterpSplineSE3(Sub(FitTimes(N), idx), Sub(FitPoses(N), idx), FALSE)

\* the angle between the rotations of two poses about the common axis
AngDist(p, q) == RatAbs(RatSub(p[1], q[1]))

\* the angular errors of the spline at the samples where, of N
ErrorsAt(spline, N, where) ==
    {AngDist(Interp_call(spline, FitTimes(N)[i + 1]), FitPoses(N)[i + 1]) : i \in where}

\* fit.max_angular_error(): the worst angular error of fit.spline over all
\* the samples
max_angular_error(spline, N) == RatMax(ErrorsAt(spline, N, 0..(N - 1)))

\* the error taken over the samples the spline was fitted on only
Acceptable_subset(spline, N, bound) ==
    LET own == {i \in 0..(N - 1) : FitTimes(N)[i + 1] \in Range(spline.timepoints)}
    IN  RatLe(RatMax(ErrorsAt(spline, N, own)), bound)

\* the reduction is accepted: the worst error is within the bound
Acceptable(spline, N, bound) == RatLe(max_angular_error(spline, N), bound)

\* candidates that may drop the last sample
Candidates_last(kept, step) ==
    LET interior == Range(kept) \ {kept[1], kept[Len(kept)]}
        k == Min(step, Cardinality(interior))
    IN  {Sorted(Range(kept) \ R) :
             R \in {Q \in SUBSET (Range(kept) \ {kept[1]}) : Cardinality(Q) = k}}

\* the candidates of one iteration: kept without step of its interior
\* indices (all of them when fewer are left), whichever the random source
\* picks
Candidates(kept, step) ==
    LET interior == Range(kept) \ {kept[1], kept[Len(kept)]}
        k == Min(step, Cardinality(interior))
    IN  {Sorted(Range(kept) \ R) : R \in {Q \in SUBSET interior : Cardinality(Q) = k}}

MaxSamples == 6

MaxStep == 2

MaxIter == 3

\* the bounds on the angular error, in 64ths of pi
FitBounds == {Rat(1, 2), One, Rat(2, 1), Rat(4, 1)}

\* fit = SplineFit(time_data, pose_data), and the call of
\* stochastic_downsample_interpolation with a bound, a first removal step
\* and an iteration budget: all samples are kept at the start
NewSplineFit ==
    /\ fit.pc = "none"
    /\ spl.kind = "none"
    /\ \E N \in 3..MaxSamples : \E bound \in FitBounds :
       \E step \in 1..MaxStep : \E budget \in 1..MaxIter :
           fit' = [pc |-> "loop", N |-> N, bound |-> bound, kept |-> Sorted(0..(N - 1)),
                   cand |-> <<>>, step |-> step, budget |-> budget]
    /\ UNCHANGED <<objs, prov, ret, spl>>

\* the loop goes on while iterations are left, the step is positive and an
\* interior index is left
Running == fit.budget > 0 /\ fit.step > 0 /\ Len(fit.kept) > 2

\* one iteration, first half: draw a candidate and fit the spline on it
Sample ==
    /\ fit.pc = "loop"
    /\ Running
    /\ \E cand \in Candidates(fit.kept, fit.step) :
           /\ fit' = [fit EXCEPT !.pc = "check", !.cand = cand, !.budget = @ - 1]
           /\ spl' = FitSpline(fit.N, cand)
    /\ UNCHANGED <<objs, prov, ret>>

\* second half: the error is within the bound, the candidate is kept
Accept ==
    /\ fit.pc = "check"
    /\ Acceptable(spl, fit.N, fit.bound)
    /\ fit' = [fit EXCEPT !.pc = "loop", !.kept = fit.cand, !.cand = <<>>]
    /\ UNCHANGED <<objs, prov, ret, spl>>

\* second half: the error is over the bound, the candidate is dropped and
\* the next one removes fewer points
Reject ==
    /\ fit.pc = "check"
    /\ ~Acceptable(spl, fit.N, fit.bound)
    /\ fit' = [fit EXCEPT !.pc = "loop", !.cand = <<>>, !.step = @ - 1]
    /\ UNCHANGED <<objs, prov, ret, spl>>

\* the loop ends: the spline is fitted on the indices kept and
\* (spline, kept_indices) is returned
Finish ==
    /\ fit.pc = "loop"
    /\ ~Running
    /\ fit' = [fit EXCEPT !.pc = "done"]
    /\ spl' = FitSpline(fit.N, fit.kept)
    /\ UNCHANGED <<objs, prov, ret>>

NextFit ==
    \/ NewSplineFit
    \/ Sample
    \/ Accept
    \/ Reject
    \/ Finish

\* sessions of one SplineFit and one downsampling
SpecFit == InitNew /\ [][NextFit]_vars

\* ------------------------------------------------------------- claims
\* Vocabulary of the statements below; none of it is used by the model.

Full(x) == ~IsNone(x.real) /\ ~IsNone(x.dual)

SumSq(c) == c[1]*c[1] + c[2]*c[2] + c[3]*c[3] + c[4]*c[4]

\* the dot product of the 4-arrays x and y, as a number over 2^(x.e + y.e)
Dot4(x, y) == x.c[1]*y.c[1] + x.c[2]*y.c[2] + x.c[3]*y.c[3] + x.c[4]*y.c[4]

\* real has norm 1 and the scalar part of real.conj(dual) + dual.conj(real),
\* twice the dot product of real and dual, is 0
UnitInvariant(x) ==
    /\ Full(x)
    /\ SumSq(x.real.A.c) = 4^x.real.A.e
    /\ Dot4(x.real.A, x.dual.A) = 0

IsUnit(x) == isUnitDualQuaternion(x) /\ UnitInvariant(x)

Tuple2(a, b) == [type |-> "tuple", items |-> <<Float(Arr(<<a>>)), Float(Arr(<<b>>))>>]

\* the object at i was built from the pose T
FromPose(i, T) ==
    /\ prov[i].op = "UnitDualQuaternion"
    /\ prov[i].args = <<T, None>>

\* the last call was self * v for a 3-vector v
PointCall == ret.op = "__mul__" /\ ret.right = 0 /\ isvector(ret.args[1], 3)

\* C1: d * v, for d built from the pose (R, t) and a 3-vector v, returns the
\* point R v + t.
C1_PointTransform ==
    \A T \in Poses :
        PointCall /\ FromPose(ret.self, T) =>
            /\ ret.out.kind = "return"
            /\ ret.out.val.type = "ndarray"
            /\ ret.out.val.A = ArrAdd(MatVec(PoseR(T), ret.args[1].A), PoseT(T))

\* C2: the product of two unit dual quaternions is a UnitDualQuaternion that
\* keeps the unit invariant, and its norm is (1, 0).
C2_UnitClosure ==
    /\ (/\ ret.op = "__mul__"
        /\ ret.right # 0
        /\ IsUnit(objs[ret.self])
        /\ IsUnit(objs[ret.right]))
       => ret.out.kind = "return" /\ IsUnit(ret.out.val)
    /\ (/\ ret.op = "norm"
        /\ prov[ret.self].op = "__mul__"
        /\ prov[ret.self].b # 0
        /\ IsUnit(objs[prov[ret.self].a])
        /\ IsUnit(objs[prov[ret.self].b]))
       => ret.out = Return(Tuple2(1, 0))

\* the norm was taken of the product of two different unit dual quaternions
C2_Witness ==
    /\ ret.op = "norm"
    /\ prov[ret.self].op = "__mul__"
    /\ prov[ret.self].a # prov[ret.self].b
    /\ IsUnit(objs[prov[ret.self].a])
    /\ IsUnit(objs[prov[ret.self].b])
    /\ objs[prov[ret.self].a].real # objs[prov[ret.self].b].real
    /\ ret.out.kind = "return"

\* the product of the basis quaternions i and j is HamSgn[i][j] times the
\* basis quaternion HamIdx[i][j] (1, i, j, k are numbered 1..4)
HamIdx == << <<1, 2, 3, 4>>, <<2, 1, 4, 3>>, <<3, 4, 1, 2>>, <<4, 3, 2, 1>> >>

HamSgn == << <<1, 1, 1, 1>>, <<1, -1, 1, -1>>, <<1, -1, -1, 1>>, <<1, 1, -1, -1>> >>

\* the Hamilton product p q by bilinearity over the basis, p on the left
Hamilton(p, q) ==
    LET RECURSIVE Sum(_, _)
        Sum(k, n) ==
            IF n = 0 THEN 0
            ELSE LET i == ((n - 1) \div 4) + 1
                     j == ((n - 1) % 4) + 1
                 IN  (IF HamIdx[i][j] = k THEN HamSgn[i][j] * p.c[i] * q.c[j] ELSE 0)
                     + Sum(k, n - 1)
    IN  Reduce(p.e + q.e, [k \in 1..4 |-> Sum(k, 16)])

\* C3: x * y has real part r1 r2 and dual part r1 d2 + d1 r2, Hamilton
\* products with the operands in this order.
C3_Product ==
    (/\ ret.op = "__mul__"
     /\ ret.right # 0
     /\ Full(objs[ret.self])
     /\ Full(objs[ret.right]))
    => LET x == objs[ret.self]
           y == objs[ret.right]
       IN  /\ ret.out.kind = "return"
           /\ isDualQuaternion(ret.out.val)
           /\ ret.out.val.real.A = Hamilton(x.real.A, y.real.A)
           /\ ret.out.val.dual.A = ArrAdd(Hamilton(x.real.A, y.dual.A),
                                          Hamilton(x.dual.A, y.real.A))

\* a product was formed whose operands do not commute, in either part
C3_Witness ==
    /\ ret.op = "__mul__"
    /\ ret.right # 0
    /\ ret.out.kind = "return"
    /\ Full(objs[ret.self])
    /\ Full(objs[ret.right])
    /\ LET x == objs[ret.self]
           y == objs[ret.right]
       IN  /\ Hamilton(x.real.A, y.real.A) # Hamilton(y.real.A, x.real.A)
           /\ Hamilton(x.dual.A, y.real.A) # Hamilton(y.real.A, x.dual.A)
           /\ Hamilton(x.dual.A, y.dual.A).c # <<0, 0, 0, 0>>

\* C4: UnitDualQuaternion(T).SE3() is the pose T, rotation and translation;
\* the identity pose gives real (1, 0, 0, 0) and dual (0, 0, 0, 0).
C4_RoundTrip ==
    /\ \A i \in DOMAIN objs :
           FromPose(i, T0) => /\ objs[i].real.A = Arr(<<1, 0, 0, 0>>)
                              /\ objs[i].dual.A = Arr(<<0, 0, 0, 0>>)
    /\ ret.op = "SE3" =>
           \A T \in Poses : FromPose(ret.self, T) => ret.out = Return(T)

\* SE3 was called on the dual quaternion of a pose that turns and translates
C4_Witness ==
    /\ ret.op = "SE3"
    /\ FromPose(ret.self, T1)
    /\ ret.out = Return(T1)

\* C5: a.matrix() @ b.vec is the 8-vector of the product a * b.
C5_MatrixVec ==
    ret.op = "matrix" /\ ret.out.kind = "return" =>
        \A k \in DOMAIN objs :
            prov[k].op = "__mul__" /\ prov[k].a = ret.self /\ prov[k].b # 0 =>
                MatVec(ret.out.val.A, vec(objs[prov[k].b]).val.A) = vec(objs[k]).val.A

\* the matrix was taken of a, with a product a * b of another b at hand
C5_Witness ==
    /\ ret.op = "matrix"
    /\ ret.out.kind = "return"
    /\ \E k \in DOMAIN objs :
           /\ prov[k].op = "__mul__"
           /\ prov[k].a = ret.self
           /\ prov[k].b # 0
           /\ objs[prov[k].b] # objs[ret.self]
           /\ objs[ret.self].dual.A.c # <<0, 0, 0, 0>>
           /\ objs[prov[k].b].dual.A.c # <<0, 0, 0, 0>>

\* the quaternion s - (x, y, z) of the 4-array (s, x, y, z)
Negated(A) == [e |-> A.e, c |-> <<A.c[1], -A.c[2], -A.c[3], -A.c[4]>>]

\* C6: conj of (p, q) is (conj p, conj q), and conj of conj of d has the real
\* and dual parts of d.
C6_ConjInvolution ==
    ret.op = "conj" /\ Full(objs[ret.self]) =>
        /\ ret.out.kind = "return"
        /\ isDualQuaternion(ret.out.val)
        /\ ret.out.val.real.A = Negated(objs[ret.self].real.A)
        /\ ret.out.val.dual.A = Negated(objs[ret.self].dual.A)
        /\ (prov[ret.self].op = "conj" =>
               /\ ret.out.val.real = objs[prov[ret.self].a].real
               /\ ret.out.val.dual = objs[prov[ret.self].a].dual)

\* conj was taken twice of a dual quaternion that conj changes in both parts
C6_Witness ==
    /\ ret.op = "conj"
    /\ ret.out.kind = "return"
    /\ prov[ret.self].op = "conj"
    /\ ret.out.val.real # objs[ret.self].real
    /\ ret.out.val.dual # objs[ret.self].dual

\* r = n / 2^r.e is the square root of m / 2^f to its last binary place
RootOf(r, m, f) ==
    /\ r.c[1] >= 0
    /\ r.c[1] * r.c[1] * 2^f <= m * 4^r.e
    /\ m * 4^r.e < (r.c[1] + 1) * (r.c[1] + 1) * 2^f

\* C7: norm() of a fully initialized dual quaternion returns the pair of the
\* square roots of the scalar parts of real.conj(real) and of
\* real.conj(dual) + dual.conj(real), for every such input; (1, 0) for a unit.
C7_NormPair ==
    ret.op = "norm" /\ Full(objs[ret.self]) =>
        LET x == objs[ret.self]
        IN  /\ ret.out.kind = "return"
            /\ ret.out.val.type = "tuple"
            /\ RootOf(ret.out.val.items[1].A, SumSq(x.real.A.c), 2 * x.real.A.e)
            /\ RootOf(ret.out.val.items[2].A, 2 * Dot4(x.real.A, x.dual.A),
                      x.real.A.e + x.dual.A.e)
            /\ (UnitInvariant(x) => ret.out.val = Tuple2(1, 0))

\* the three argument forms the constructor takes
Accepted(real, dual) ==
    \/ IsNone(real) /\ IsNone(dual)
    \/ IsNone(dual) /\ real.type \in {"list", "ndarray"} /\ Len(real.A.c) = 8
    \/ isQuaternion(real) /\ isQuaternion(dual)

\* C8: DualQuaternion(real, dual) raises ValueError and leaves no object for
\* every argument pair but the three accepted forms, which it stores as given.
C8_Construct ==
    [][ret'.op = "DualQuaternion" =>
          LET real == ret'.args[1]
              dual == ret'.args[2]
          IN  IF Accepted(real, dual)
              THEN /\ ret'.out.kind = "return"
                   /\ objs' = Append(objs, ret'.out.val)
                   /\ isQuaternion(real) =>
                          ret'.out.val.real = real /\ ret'.out.val.dual = dual
                   /\ IsNone(real) =>
                          IsNone(ret'.out.val.real) /\ IsNone(ret'.out.val.dual)
                   /\ real.type \in {"list", "ndarray"} /\ real.A.e = 0 =>
                          /\ ret'.out.val.real = Quaternion(Arr(SubSeq(real.A.c, 1, 4)))
                          /\ ret'.out.val.dual = Quaternion(Arr(SubSeq(real.A.c, 5, 8)))
              ELSE /\ ret'.out = Raise("ValueError")
                   /\ objs' = objs]_vars

\* the constructor was called with the real part alone and raised
C8_Witness ==
    /\ ret.op = "DualQuaternion"
    /\ isQuaternion(ret.args[1])
    /\ IsNone(ret.args[2])
    /\ ret.out = Raise("ValueError")
    /\ Len(objs) > 0

Empty(x) == IsNone(x.real) /\ IsNone(x.dual)

\* C9: +, - and * with an empty operand on either side, and matrix() and vec
\* of an empty dual quaternion, fail an assertion.
C9_EmptyOperand ==
    /\ (/\ ret.op \in {"__add__", "__sub__", "__mul__"}
        /\ (Empty(objs[ret.self]) \/ (ret.right # 0 /\ Empty(objs[ret.right]))))
       => ret.out = Raise("AssertionError")
    /\ (ret.op \in {"matrix", "vec"} /\ Empty(objs[ret.self]))
       => ret.out = Raise("AssertionError")

\* a full dual quaternion was multiplied by an empty one
C9_Witness ==
    /\ ret.op = "__mul__"
    /\ ret.right # 0
    /\ Full(objs[ret.self])
    /\ Empty(objs[ret.right])
    /\ ret.out = Raise("AssertionError")

\* C10: no call changes a dual quaternion that exists, and conj, +, - and *
\* return an object that did not exist before.
C10_Immutable ==
    [][/\ \A i \in DOMAIN objs : i \in DOMAIN objs' /\ objs'[i] = objs[i]
       /\ (/\ ret'.op \in {"conj", "__add__", "__sub__", "__mul__"}
           /\ ret'.out.kind = "return"
           /\ isDualQuaternion(ret'.out.val))
          => objs' = Append(objs, ret'.out.val)]_vars

\* a difference was returned as a third object, unequal to its left operand
C10_Witness ==
    /\ ret.op = "__sub__"
    /\ ret.out.kind = "return"
    /\ Len(objs) = 3
    /\ objs[3] = ret.out.val
    /\ objs[ret.self] # ret.out.val

\* C16: UnitDualQuaternion(T) of a pose (R, t) has for real the unit quaternion
\* of R and for dual half of Pure(t) real, and keeps the unit invariant;
\* UnitDualQuaternion(real, dual) of two quaternions stores them as given.
C16_FromPose ==
    ret.op = "UnitDualQuaternion" =>
        LET real == ret.args[1]
            dual == ret.args[2]
            d == ret.out.val
        IN  /\ (IsNone(dual) /\ real.type = "SE3") =>
                   /\ ret.out.kind = "return"
                   /\ isUnitDualQuaternion(d)
                   /\ d.real.type = "UnitQuaternion"
                   /\ q2r(d.real.A) = PoseR(real)
                   /\ d.dual.A = ArrScale(Half, Hamilton(Q_Pure(PoseT(real)).A, d.real.A))
                   /\ UnitInvariant(d)
            /\ (isQuaternion(real) /\ isQuaternion(dual)) =>
                   ret.out = Return(Object("UnitDualQuaternion", real, dual))

\* a unit dual quaternion was built from a pose that turns and translates
C16_Witness ==
    /\ ret.op = "UnitDualQuaternion"
    /\ ret.args = <<T1, None>>
    /\ ret.out.kind = "return"
    /\ ret.out.val.dual.A.c # <<0, 0, 0, 0>>
    /\ \E i \in DOMAIN objs :
           /\ prov[i].op = "UnitDualQuaternion"
           /\ prov[i].args = <<qC, qD>>
           /\ ~UnitInvariant(objs[i])

\* C17: x * y is a UnitDualQuaternion exactly when x and y both are.
C17_UnitTag ==
    (/\ ret.op = "__mul__"
     /\ ret.right # 0
     /\ ret.out.kind = "return")
    => (isUnitDualQuaternion(ret.out.val)
           <=> (isUnitDualQuaternion(objs[ret.self])
                   /\ isUnitDualQuaternion(objs[ret.right])))

\* the 3x3 matrix product, row by row
MatMul3(A, B) ==
    Reduce(A.e + B.e,
           [k \in 1..9 |->
               LET i == ((k - 1) \div 3) + 1
                   j == ((k - 1) % 3) + 1
               IN  A.c[(i - 1) * 3 + 1] * B.c[j]
                   + A.c[(i - 1) * 3 + 2] * B.c[3 + j]
                   + A.c[(i - 1) * 3 + 3] * B.c[6 + j]])

\* the pose Ta Tb: rotation Ra Rb, translation Ra tb + ta
Compose(Ta, Tb) ==
    Pose(MatMul3(PoseR(Ta), PoseR(Tb)),
         ArrAdd(MatVec(PoseR(Ta), PoseT(Tb)), PoseT(Ta)))

BuiltFromPose(k) ==
    /\ prov[k].op = "UnitDualQuaternion"
    /\ prov[k].args[1].type = "SE3"
    /\ IsNone(prov[k].args[2])

RECURSIVE HasPose(_)
\* the object at k is a unit dual quaternion of a pose, or a product of such
HasPose(k) ==
    \/ BuiltFromPose(k)
    \/ /\ prov[k].op = "__mul__"
       /\ prov[k].b # 0
       /\ HasPose(prov[k].a)
       /\ HasPose(prov[k].b)

RECURSIVE PoseOf(_)
\* the pose the object at k stands for: the poses composed in the order of
\* the products
PoseOf(k) ==
    IF BuiltFromPose(k) THEN prov[k].args[1]
    ELSE Compose(PoseOf(prov[k].a), PoseOf(prov[k].b))

\* C18: SE3() of a product of unit dual quaternions of poses is the poses
\* composed in the same order.
C18_Composition ==
    ret.op = "SE3" /\ HasPose(ret.self) => ret.out = Return(PoseOf(ret.self))

\* SE3() was called on the product of two poses that do not commute
C18_Witness ==
    /\ ret.op = "SE3"
    /\ prov[ret.self].op = "__mul__"
    /\ HasPose(ret.self)
    /\ ret.out.kind = "return"
    /\ LET Ta == PoseOf(prov[ret.self].a)
           Tb == PoseOf(prov[ret.self].b)
       IN  /\ PoseR(Compose(Ta, Tb)) # PoseR(Compose(Tb, Ta))
           /\ PoseT(Compose(Ta, Tb)) # PoseT(Compose(Tb, Ta))
           /\ PoseT(Compose(Ta, Tb)) # ArrAdd(PoseT(Ta), PoseT(Tb))

\* the last call was one of the four generalized functions
FunctionCall == ret.op \in {"sin", "cos", "tan", "sqrt"}

\* x is a symbolic expression, or a list or tuple with one among its elements
Symbolic(x) ==
    \/ x.type = "Expr"
    \/ /\ x.type \in {"list", "tuple"}
       /\ \E i \in DOMAIN Items(x) : Items(x)[i].type = "Expr"

\* C15 as stated: issymbol(x) is true exactly of a symbolic x, and sin, cos,
\* tan and sqrt return an expression of a symbolic argument and a float of
\* every other argument.
C15_AsStated ==
    /\ ret.op = "issymbol" => ret.out = Return(Bool(Symbolic(ret.args[1])))
    /\ FunctionCall =>
           /\ ret.out.kind = "return"
           /\ ret.out.val.type = (IF Symbolic(ret.args[1]) THEN "Expr" ELSE "float")

\* C15, amended: issymbol(x) is true exactly of a symbolic x; sin, cos, tan
\* and sqrt return an expression of an expression and a float of a number,
\* but sqrt of a negative number raises ValueError; of a string and of a
\* list or tuple without symbols they raise TypeError.
C15_Dispatch ==
    /\ ret.op = "issymbol" => ret.out = Return(Bool(Symbolic(ret.args[1])))
    /\ FunctionCall =>
           LET x == ret.args[1]
           IN  /\ x.type = "Expr" => ret.out.kind = "return" /\ ret.out.val.type = "Expr"
               /\ (isnumber(x) /\ ~(ret.op = "sqrt" /\ x.A.c[1] < 0)) =>
                      ret.out.kind = "return" /\ ret.out.val.type = "float"
               /\ (isnumber(x) /\ ret.op = "sqrt" /\ x.A.c[1] < 0) =>
                      ret.out = Raise("ValueError")
               /\ (x.type \in {"str", "list", "tuple"} /\ ~Symbolic(x)) =>
                      ret.out = Raise("TypeError")

\* issymbol was called on a list whose second element only is a symbol
C15_Witness ==
    /\ ret.op = "issymbol"
    /\ ret.args[1].type = "list"
    /\ Len(Items(ret.args[1])) = 2
    /\ Items(ret.args[1])[1].type # "Expr"
    /\ Items(ret.args[1])[2].type = "Expr"
    /\ ret.out = Return(Bool(TRUE))

\* C11: an interpolating spline evaluated at one of its timepoints returns
\* the waypoint of that timepoint; with normalize_time the timepoints run
\* from 0 to 1 in the proportions of the times given.
C11_Interpolates ==
    spl.kind = "InterpSplineSE3" =>
        LET tp == spl.timepoints
            n == Len(tp)
        IN  /\ \A i \in DOMAIN tp : spl.called /\ spl.t = tp[i] => spl.out = spl.poses[i]
            /\ ~spl.normalize_time => tp = spl.times
            /\ spl.normalize_time =>
                   /\ tp[1] = Zero
                   /\ tp[n] = One
                   /\ \A i \in 1..(n - 1) :
                          RatMul(RatSub(tp[i + 1], tp[i]), RatSub(spl.times[n], spl.times[1]))
                              = RatSub(spl.times[i + 1], spl.times[i])

\* a spline with normalized time was evaluated at an inner timepoint, between
\* unequal steps of times that do not start at 0
C11_Witness ==
    /\ spl.kind = "InterpSplineSE3"
    /\ spl.normalize_time
    /\ spl.called
    /\ spl.times[1] # Zero
    /\ Len(spl.times) = 4
    /\ spl.t = spl.timepoints[3]
    /\ spl.t # spl.times[3]
    /\ spl.out = spl.poses[3]

\* C12: a B-spline of two or more control poses evaluated at 0 returns the
\* first control pose and at 1 the last.
C12_Endpoints ==
    spl.kind = "BSplineSE3" /\ spl.called =>
        /\ spl.t = Zero => spl.out = spl.poses[1]
        /\ spl.t = One => spl.out = spl.poses[Len(spl.poses)]

\* a B-spline with inner knots was evaluated at 1
C12_Witness ==
    /\ spl.kind = "BSplineSE3"
    /\ spl.called
    /\ Len(spl.poses) = 5
    /\ spl.t = One
    /\ spl.out = spl.poses[5]

\* the indices kept are strictly increasing indices of the N samples, the
\* first and the last among them
KeptOk ==
    /\ \A i \in 1..(Len(fit.kept) - 1) : fit.kept[i] < fit.kept[i + 1]
    /\ Range(fit.kept) \subseteq 0..(fit.N - 1)
    /\ 0 \in Range(fit.kept)
    /\ fit.N - 1 \in Range(fit.kept)

\* C13: at every step of the loop and on return kept_indices is a strictly
\* increasing subset of range(N) that contains 0 and N - 1; it never grows
\* from one step to the next; the spline returned has len(kept_indices)
\* control poses and timepoints.
C13_KeptIndices ==
    /\ [](fit.pc # "none" =>
              /\ KeptOk
              /\ fit.pc = "done" =>
                     /\ Len(spl.poses) = Len(fit.kept)
                     /\ Len(spl.timepoints) = Len(fit.kept))
    /\ [][fit.pc # "none" => Range(fit'.kept) \subseteq Range(fit.kept)]_vars

\* a downsampling returned after dropping some interior samples, not all
C13_Witness ==
    /\ fit.pc = "done"
    /\ Len(fit.kept) < fit.N
    /\ Len(fit.kept) > 2
    /\ Len(spl.poses) = Len(fit.kept)

\* a candidate was just accepted: the indices kept have changed
JustAccepted == fit.pc = "loop" /\ Len(fit.kept) < fit.N

\* C14, as stated: accepted candidates have their worst angular error over
\* all samples within the bound, and the spline returned has
\* max_angular_error() below the bound.
C14_AsStated ==
    /\ JustAccepted => RatLe(max_angular_error(FitSpline(fit.N, fit.kept), fit.N), fit.bound)
    /\ fit.pc = "done" => RatLt(max_angular_error(spl, fit.N), fit.bound)

\* C14: accepted candidates have their worst angular error over all samples
\* within the bound, and the spline returned has max_angular_error() within
\* the bound: at most the bound, which it may equal.
C14_Bounded ==
    /\ fit.pc \in {"loop", "done"} =>
           RatLe(max_angular_error(FitSpline(fit.N, fit.kept), fit.N), fit.bound)
    /\ fit.pc = "done" => RatLe(max_angular_error(spl, fit.N), fit.bound)

\* a downsampling returned a smaller set whose worst error is the bound
C14_Witness ==
    /\ fit.pc = "done"
    /\ Len(fit.kept) < fit.N
    /\ RatLt(Zero, fit.bound)
    /\ max_angular_error(spl, fit.N) = fit.bound
====
